---- MODULE Spec2Model ----
(***************************************************************************)
(* Answer scoring engine of open-mcr (src/src/scoring.py): the key         *)
(* dictionary builder establish_key_dict, the grader grade_answer and the  *)
(* orchestrator score_results.                                             *)
(*                                                                         *)
(* A Python str is a sequence of one-character strings, so that            *)
(* startswith, endswith, strip, split and replace are computed, not        *)
(* assumed.  A float is an integer where the code only adds and compares   *)
(* weights, and a number of hundredths after round(x, 2).                   *)
(***************************************************************************)
EXTENDS Integers, Sequences, FiniteSets, TLC

(***************************************************************************)
(* Bounds of the model.                                                    *)
(***************************************************************************)
MaxSpecLen == 3     \* grader: every specification string up to this length
MaxAlts == 2        \* grader: bracketed sets of up to this many alternatives
MaxWeight == 2      \* grader: weights 0..MaxWeight
MaxKeyCells == 3    \* run: cells (form codes and specifications) of a generated key table
MaxExamCells == 4   \* run: cells (form codes and answers) of the response table

(***************************************************************************)
(* Python str operations used by scoring.py.                               *)
(***************************************************************************)
StartsWith(s, c) == Len(s) >= 1 /\ s[1] = c
EndsWith(s, c) == Len(s) >= 1 /\ s[Len(s)] = c

RECURSIVE LStrip(_, _)
LStrip(s, chars) ==
    IF s # <<>> /\ Head(s) \in chars THEN LStrip(Tail(s), chars) ELSE s

RECURSIVE RStrip(_, _)
RStrip(s, chars) ==
    IF s # <<>> /\ s[Len(s)] \in chars
    THEN RStrip(SubSeq(s, 1, Len(s) - 1), chars)
    ELSE s

\* s.strip(chars)
Strip(s, chars) == RStrip(LStrip(s, chars), chars)

\* s.split(sep): the list of the pieces between the occurrences of sep
RECURSIVE Split(_, _)
Split(s, sep) ==
    IF \E i \in 1..Len(s) : s[i] = sep
    THEN LET i == CHOOSE k \in 1..Len(s) :
                     s[k] = sep /\ \A j \in 1..(k - 1) : s[j] # sep
         IN  <<SubSeq(s, 1, i - 1)>> \o Split(SubSeq(s, i + 1, Len(s)), sep)
    ELSE <<s>>

\* s.replace(c, "")
Remove(s, c) == SelectSeq(s, LAMBDA x : x # c)

\* set(s) for a str s, and set(l) for a list l
CharSet(s) == {<<s[i]>> : i \in 1..Len(s)}
ListSet(l) == {l[i] : i \in 1..Len(l)}

(***************************************************************************)
(* Python values: what _extract_with_multiple returns is a str or a set    *)
(* of str; what grade_answer returns is a float, nan, or an exception.     *)
(***************************************************************************)
PyStr(s) == [isset |-> FALSE, str |-> s, set |-> {}]
PySet(S) == [isset |-> TRUE, str |-> <<>>, set |-> S]
PyLen(v) == IF v.isset THEN Cardinality(v.set) ELSE Len(v.str)

Num(n) == [kind |-> "num", val |-> n, exc |-> "none"]
NaN == [kind |-> "nan", val |-> 0, exc |-> "none"]
Raise(e) == [kind |-> "raise", val |-> 0, exc |-> e]

\* scoring.py:131-136
extract_with_multiple(s) ==
    IF StartsWith(s, "[") /\ EndsWith(s, "]")
    THEN PySet(ListSet(Split(Strip(s, {"[", "]"}), "|")))
    ELSE PyStr(s)

\* scoring.py:141-142 with a wrong answer graded not-applicable
GradeSingleWrongIsNan(answer, correct, score) ==
    IF ~correct.isset /\ answer = correct.str THEN Num(score) ELSE NaN

\* scoring.py:141-142: int(answer == correct) * score; a str never equals a set
GradeSingle(answer, correct, score) ==
    Num((IF ~correct.isset /\ answer = correct.str THEN 1 ELSE 0) * score)

\* scoring.py:143-148: {answer_set} of a set raises TypeError (unhashable);
\* set.intersection(str) iterates over the characters of the str
GradeMulti(answer, correct, score) ==
    LET answer_set == extract_with_multiple(answer)
    IN  IF answer_set.isset
        THEN Raise("TypeError")
        ELSE Num((IF correct.set \cap CharSet(answer_set.str) # {} THEN 1 ELSE 0)
                     * score)

\* scoring.py:150-164
GradePrefixed(answer, correct, score) ==
    LET stripped == Remove(correct.str, "*")
    IN  IF Len(stripped) = 1
        THEN IF answer = stripped THEN Num(score) ELSE NaN
        ELSE IF StartsWith(stripped, "[") /\ EndsWith(stripped, "]")
        THEN IF answer \in CharSet(Strip(stripped, {"[", "]"}))
             THEN Num(score)
             ELSE NaN
        ELSE Raise("NotImplementedError")

\* scoring.py:139-140, with a canceled question graded as wrong
GradeCanceledIsZero(answer, correct, score) == Num(0)

\* scoring.py:139-140: return np.nan
GradeCanceled(answer, correct, score) == NaN

\* scoring.py:137-166
grade_answer(answer, correct_, score) ==
    LET correct == extract_with_multiple(correct_)
    IN  IF correct = PyStr(<<"*">>) THEN GradeCanceled(answer, correct, score)
        ELSE IF PyLen(correct) = 1 THEN GradeSingle(answer, correct, score)
        ELSE IF correct.isset THEN GradeMulti(answer, correct, score)
        ELSE IF StartsWith(correct.str, "*") THEN GradePrefixed(answer, correct, score)
        ELSE Raise("NotImplementedError")

(***************************************************************************)
(* The strings the grader is applied to.                                   *)
(***************************************************************************)
Letters == {"A", "B", "C"}
Digit == {"7"}
Alphabet == {"A", "B", "*", "[", "]", "|"}

StringsUpTo(n) == UNION {[1..k -> Alphabet] : k \in 0..n}

RECURSIVE Join(_)
\* "|".join(l) for a list l of one-character strings
Join(l) ==
    IF Len(l) = 0 THEN <<>>
    ELSE IF Len(l) = 1 THEN <<l[1]>>
    ELSE <<l[1], "|">> \o Join(Tail(l))

\* "[x1|...|xn]" for every sequence of 1..MaxAlts letters
Bracketed == {<<"[">> \o Join(l) \o <<"]">> :
                  l \in UNION {[1..k -> Letters] : k \in 1..MaxAlts}}

GradeSpecs ==
    StringsUpTo(MaxSpecLen)
        \cup {<<c>> : c \in Letters \cup Digit}
        \cup Bracketed
        \cup {<<"*">> \o b : b \in Bracketed}
        \cup {SubSeq(b, 1, Len(b) - 1) : b \in Bracketed}
GradeAnswers == StringsUpTo(1) \cup {<<c>> : c \in Letters \cup Digit} \cup Bracketed
GradeWeights == 0..MaxWeight

(***************************************************************************)
(* The tables score_results is applied to.  A table is                     *)
(* [data |-> <<header, row, ...>>, scores |-> <<weights of row 1, ...>>]   *)
(* (data_exporting.OutputSheet); every cell is a str.                      *)
(***************************************************************************)
\* data_exporting.COLUMN_NAMES[grid_info.Field.TEST_FORM_CODE]
TEST_FORM_CODE == <<"T", "e", "s", "t", " ", "F", "o", "r", "m", " ", "C", "o", "d", "e">>
\* data_exporting.KEY_NOT_FOUND_MESSAGE
KEY_NOT_FOUND_MESSAGE == <<"N", "O", " ", "K", "E", "Y", " ", "F", "O", "U", "N", "D">>
Q1 == <<"Q", "1">>
STAR == <<"*">>
FORM1 == <<"F", "O", "R", "M", "1">>
FORM2 == <<"F", "O", "R", "M", "2">>

DigitChar(d) == <<"0", "1", "2", "3", "4", "5", "6", "7", "8", "9">>[d + 1]

RECURSIVE Digits(_)
\* str(n) for an int n >= 0
Digits(n) == IF n < 10 THEN <<DigitChar(n)>> ELSE Digits(n \div 10) \o <<DigitChar(n % 10)>>

Max(a, b) == IF a >= b THEN a ELSE b
Min(a, b) == IF a <= b THEN a ELSE b

RECURSIVE SumSeq(_)
SumSeq(l) == IF l = <<>> THEN 0 ELSE Head(l) + SumSeq(Tail(l))

KeyForms == {FORM1, STAR}
ExamForms == {FORM1, FORM2}
RunSpecs == {<<"A">>, <<"*">>, <<"*", "C">>}
RunAnswers == {<<"A">>, <<"C">>}

Ones(n) == [i \in 1..n |-> 1]
Ramp(n) == [i \in 1..n |-> i - 1]
\* the weights given for a key row of n questions: none, all 1, or 0, 1, ..., n - 1
WeightSeqs(n) == {<<>>, Ones(n), Ramp(n)}

KeyRows(n) == [form : KeyForms, specs : [1..n -> RunSpecs], weights : WeightSeqs(n)]
KeyRowsUpTo(cells) == UNION {KeyRows(n) : n \in 0..(cells - 1)}

RECURSIVE KeyRowSeqs(_)
\* the sequences of key rows that hold at most `cells` cells, a form code
\* and the specifications counted for every row
KeyRowSeqs(cells) ==
    {<<>>} \cup UNION {{<<r>> \o rest : rest \in KeyRowSeqs(cells - 1 - Len(r.specs))} :
                          r \in KeyRowsUpTo(cells)}

RECURSIVE MaxLen(_)
MaxLen(rows) == IF rows = <<>> THEN 0 ELSE Max(Len(Head(rows).specs), MaxLen(Tail(rows)))

\* the header and the rows of a key sheet: with or without the form code
\* column, its answer columns named Q1.. or (a malformed sheet) A1..
HeaderKinds == {"form+Q", "Q", "form+A"}
KeyTable(kind, rows) ==
    LET n == Max(1, MaxLen(rows))
        names == [i \in 1..n |-> <<(IF kind = "form+A" THEN "A" ELSE "Q")>> \o Digits(i)]
        hasForm == kind # "Q"
    IN  [data |-> <<(IF hasForm THEN <<TEST_FORM_CODE>> ELSE <<>>) \o names>>
                      \o [i \in 1..Len(rows) |->
                             (IF hasForm THEN <<rows[i].form>> ELSE <<>>) \o rows[i].specs],
         scores |-> [i \in 1..Len(rows) |-> rows[i].weights]]

\* scenario A of the specification: key FORM1, Q1=A, Q2=[B|C], Q3=*, weights 1,1,1
ScenarioAKeys ==
    KeyTable("form+Q",
             <<[form |-> FORM1,
                specs |-> <<<<"A">>, <<"[", "B", "|", "C", "]">>, <<"*">>>>,
                weights |-> <<1, 1, 1>>]>>)
ScenarioAExam == <<FORM1, <<"A">>, <<"C">>, <<"D">>>>
\* a response row with two bubbles marked for Q2
MultiMarkExam == <<FORM1, <<"A">>, <<"[", "A", "|", "C", "]">>>>

KeyTables ==
    {KeyTable(k, rows) : k \in HeaderKinds, rows \in KeyRowSeqs(MaxKeyCells)}
        \cup {ScenarioAKeys}

\* a response row: the form code, then the answers
Exams ==
    {<<f>> \o a : f \in ExamForms,
                  a \in UNION {[1..k -> RunAnswers] : k \in 0..(MaxExamCells - 1)}}
        \cup {ScenarioAExam, MultiMarkExam}
ResultsHeader == <<TEST_FORM_CODE, Q1>>

RECURSIVE Cells(_)
Cells(rows) == IF rows = <<>> THEN 0 ELSE Len(Head(rows)) + Cells(Tail(rows))

(***************************************************************************)
(* establish_key_dict and score_results.                                   *)
(***************************************************************************)
\* list_utils.find_index: the (1-based) index of the first element equal to
\* value; 0 stands for StopIteration
find_index(list, value) ==
    IF \E i \in 1..Len(list) : list[i] = value
    THEN CHOOSE i \in 1..Len(list) : list[i] = value /\ \A j \in 1..(i - 1) : list[j] # value
    ELSE 0

\* zip(a, b): stops at the shorter
Zip(a, b) == [i \in 1..Min(Len(a), Len(b)) |-> <<a[i], b[i]>>]

\* scoring.py:13-25; index counts the key rows from 1
get_key_form_code(keys, index) ==
    LET form_code_index == find_index(keys.data[1], TEST_FORM_CODE)
    IN  IF form_code_index = 0 THEN STAR ELSE keys.data[index + 1][form_code_index]

RECURSIVE KeyDict(_, _, _)
\* scoring.py:50-53: the dict comprehension over the key rows 1..n, a later
\* row replacing an earlier one of the same form code
KeyDict(keys, answers_start_index, n) ==
    IF n = 0 THEN <<>>
    ELSE LET before == KeyDict(keys, answers_start_index, n - 1)
             code == get_key_form_code(keys, n)
             key == keys.data[n + 1]
             entry == Zip(SubSeq(key, answers_start_index, Len(key)), keys.scores[n])
         IN  [c \in DOMAIN before \cup {code} |-> IF c = code THEN entry ELSE before[c]]

\* scoring.py:28-54 with a header that has no Q1 read from its first column
establish_key_dict_NoHeaderCheck(keys) ==
    [exc |-> "none",
     dict |-> KeyDict(keys, Max(1, find_index(keys.data[1], Q1)), Len(keys.data) - 1)]

\* scoring.py:28-54
establish_key_dict(keys) ==
    LET answers_start_index == find_index(keys.data[1], Q1)
    IN  IF answers_start_index = 0
        THEN [exc |-> "ValueError", dict |-> <<>>]
        ELSE [exc |-> "none",
              dict |-> KeyDict(keys, answers_start_index, Len(keys.data) - 1)]

\* a float after round(x, 2): nan, or a number of hundredths
FNaN == [nan |-> TRUE, h |-> 0]
Hundredths(h) == [nan |-> FALSE, h |-> h]

\* num / den rounded to the nearest integer, a tie to the even one
RoundDiv(num, den) ==
    LET q == num \div den
        r == num % den
    IN  IF 2 * r < den THEN q
        ELSE IF 2 * r > den THEN q + 1
        ELSE IF q % 2 = 0 THEN q ELSE q + 1

\* str(x) for a float x with at most two decimals: "100.0", "66.67", "nan"
StrFloat(x) ==
    IF x.nan THEN <<"n", "a", "n">>
    ELSE Digits(x.h \div 100) \o <<".">>
             \o (IF x.h % 10 = 0
                 THEN <<DigitChar((x.h % 100) \div 10)>>
                 ELSE <<DigitChar((x.h % 100) \div 10), DigitChar(x.h % 10)>>)

\* str(s) for a grade s (scoring.py:111)
StrGrade(g) == IF g.kind = "nan" THEN StrFloat(FNaN) ELSE StrFloat(Hundredths(100 * g.val))

\* scoring.py:101-103 with the weights of the not-applicable questions kept
MaxScoreAllWeights(scores, scored_answers) == SumSeq(scores)

\* scoring.py:101-103: max_score = np.sum(key_scores[~nan_mask])
MaxScore(scores, scored_answers) ==
    SumSeq([i \in 1..Len(scores) |-> IF scored_answers[i].kind = "nan" THEN 0 ELSE scores[i]])

\* scoring.py:104: raw_score = np.nansum(scored_answers)
RawScore(scored_answers) ==
    SumSeq([i \in 1..Len(scored_answers) |->
               IF scored_answers[i].kind = "nan" THEN 0 ELSE scored_answers[i].val])

\* scoring.py:105-108: round(raw_score / max_score * 100, 2); 0.0 / 0 is nan
ScoreField(raw_score, max_score) ==
    IF max_score = 0 THEN FNaN ELSE Hundredths(RoundDiv(raw_score * 10000, max_score))

\* scoring.py:109-110 with the canceled weights left out of the total
PointsFieldGradedOnly(scores, raw_score, max_score) ==
    IF max_score = 0 THEN FNaN ELSE Hundredths(RoundDiv(max_score * raw_score * 100, max_score))

\* scoring.py:109-110 with the score fraction not scaled by the weights
PointsFieldFractionOnly(scores, raw_score, max_score) ==
    IF max_score = 0 THEN FNaN ELSE Hundredths(RoundDiv(raw_score * 100, max_score))

\* scoring.py:109-110: round(np.sum(key_scores) * score, 2)
PointsField(scores, raw_score, max_score) ==
    IF max_score = 0 THEN FNaN
    ELSE Hundredths(RoundDiv(SumSeq(scores) * raw_score * 100, max_score))

\* scoring.py:96-99: zip stops at the shorter of the answers and the key
GradedLen(exam_answers, key) == Min(Len(exam_answers), Len(key))

\* scoring.py:82-85: the wildcard entry first, else the row's form code
HasKey(keys_scores, form_code) == STAR \in DOMAIN keys_scores \/ form_code \in DOMAIN keys_scores
\* scoring.py:82-85 with the row's own form code looked up first
ResolveKeyOwnFormFirst(keys_scores, form_code) ==
    IF form_code \in DOMAIN keys_scores THEN keys_scores[form_code] ELSE keys_scores[STAR]

ResolveKey(keys_scores, form_code) ==
    IF STAR \in DOMAIN keys_scores THEN keys_scores[STAR] ELSE keys_scores[form_code]

\* scoring.py:88-93 with the sentinel written to the score field only
KeyNotFoundRowScoreOnly(fields) ==
    [fields |-> fields, score |-> KEY_NOT_FOUND_MESSAGE, points |-> <<>>, answers |-> <<>>]

\* except KeyError (scoring.py:88-93): the row written for a form code with no key
KeyNotFoundRow(fields) ==
    [fields |-> fields,
     score |-> KEY_NOT_FOUND_MESSAGE,
     points |-> KEY_NOT_FOUND_MESSAGE,
     answers |-> <<>>]

\* scoring.py:86-87: the default applies to an empty weight tuple
DefaultScores(key, scores) == IF Len(scores) = 0 THEN Ones(Len(key)) ELSE scores

\* scoring.py:75-112, one iteration of the loop: the exception it ends with,
\* or the row it adds
ScoreExam(exam, keys_scores, form_code_index, answers_start_index) ==
    LET fields == SubSeq(exam, 1, answers_start_index - 1)
        form_code == exam[form_code_index]
        exam_answers == SubSeq(exam, answers_start_index, Len(exam))
        NoRow == [fields |-> <<>>, score |-> <<>>, points |-> <<>>, answers |-> <<>>]
    IN  IF ~HasKey(keys_scores, form_code)
        THEN [exc |-> "none", row |-> KeyNotFoundRow(fields)]
        ELSE LET pairs == ResolveKey(keys_scores, form_code)
             IN  IF pairs = <<>>
                 THEN \* key, scores = zip(*[]): not enough values to unpack
                      [exc |-> "ValueError", row |-> NoRow]
                 ELSE
                 LET key == [i \in 1..Len(pairs) |-> pairs[i][1]]
                     scores == DefaultScores(key, [i \in 1..Len(pairs) |-> pairs[i][2]])
                     scored_answers ==
                         [i \in 1..GradedLen(exam_answers, key) |->
                             grade_answer(exam_answers[i], key[i], scores[i])]
                     raising == {i \in 1..Len(scored_answers) : scored_answers[i].kind = "raise"}
                     max_score == MaxScore(scores, scored_answers)
                     raw_score == RawScore(scored_answers)
                 IN  IF raising # {}
                     THEN [exc |-> scored_answers[CHOOSE i \in raising :
                                                     \A j \in raising : i <= j].exc,
                           row |-> NoRow]
                     ELSE IF Len(scored_answers) # Len(scores)
                     THEN \* key_scores[~nan_mask]: boolean index of another length
                          [exc |-> "IndexError", row |-> NoRow]
                     ELSE [exc |-> "none",
                           row |-> [fields |-> fields,
                                    score |-> StrFloat(ScoreField(raw_score, max_score)),
                                    points |-> StrFloat(PointsField(scores, raw_score, max_score)),
                                    answers |-> [i \in 1..Len(scored_answers) |->
                                                    StrGrade(scored_answers[i])]]]

VARIABLES call, ret, answer_keys, answers, keys_scores, num_questions, scored_results, pc, exc

rvars == <<answer_keys, answers, keys_scores, num_questions, scored_results, pc, exc>>
vars == <<call, ret, answer_keys, answers, keys_scores, num_questions, scored_results, pc, exc>>

NoCall == [answer |-> <<>>, correct |-> <<>>, score |-> 0]
NoReturn == [kind |-> "none", val |-> 0, exc |-> "none"]
NoKeys == [data |-> <<>>, scores |-> <<>>]

\* no scoring run: the state of the run while the grader alone is applied
RunIdle ==
    /\ answer_keys = NoKeys
    /\ answers = <<>>
    /\ keys_scores = <<>>
    /\ num_questions = 0
    /\ scored_results = <<>>
    /\ pc = "idle"
    /\ exc = "none"

GradeInit ==
    /\ call \in [answer : GradeAnswers, correct : GradeSpecs, score : GradeWeights]
    /\ ret = NoReturn
    /\ RunIdle

\* one call of grade_answer
Grade ==
    /\ ret = NoReturn
    /\ call # NoCall
    /\ ret' = grade_answer(call.answer, call.correct, call.score)
    /\ UNCHANGED <<call, rvars>>

GradeNext == Grade

GradeSpec == GradeInit /\ [][GradeNext]_vars

\* score_results is called with a key table; the response rows are read as
\* the loop reaches them
Init ==
    /\ call = NoCall
    /\ ret = NoReturn
    /\ answer_keys \in KeyTables
    /\ answers = <<>>
    /\ keys_scores = <<>>
    /\ num_questions = 0
    /\ scored_results = <<>>
    /\ pc = "start"
    /\ exc = "none"

\* scoring.py:60-72
Start ==
    /\ pc = "start"
    /\ LET built == establish_key_dict(answer_keys)
       IN  IF built.exc # "none"
           THEN /\ pc' = "raised"
                /\ exc' = built.exc
                /\ UNCHANGED <<keys_scores, num_questions>>
           ELSE IF DOMAIN built.dict = {}
           THEN \* max([]) of no key entry
                /\ pc' = "raised"
                /\ exc' = "ValueError"
                /\ keys_scores' = built.dict
                /\ UNCHANGED num_questions
           ELSE /\ pc' = "loop"
                /\ keys_scores' = built.dict
                /\ num_questions' =
                       CHOOSE m \in {Len(built.dict[c]) : c \in DOMAIN built.dict} :
                           \A c \in DOMAIN built.dict : Len(built.dict[c]) <= m
                /\ UNCHANGED exc
    /\ UNCHANGED <<call, ret, answer_keys, answers, scored_results>>

\* scoring.py:74-112 with a row that raises skipped and the loop going on
ScoreRowSkipsFailedRow ==
    /\ pc = "loop"
    /\ \E exam \in Exams :
          /\ Cells(answers) + Len(exam) <= MaxExamCells
          /\ LET r == ScoreExam(exam, keys_scores, 1, 2)
             IN  /\ answers' = Append(answers, exam)
                 /\ scored_results' =
                        IF r.exc # "none" THEN scored_results ELSE Append(scored_results, r.row)
    /\ UNCHANGED <<call, ret, answer_keys, keys_scores, num_questions, pc, exc>>

\* scoring.py:74-112, one response row
ScoreRow ==
    /\ pc = "loop"
    /\ \E exam \in Exams :
          /\ Cells(answers) + Len(exam) <= MaxExamCells
          /\ LET form_code_index == find_index(ResultsHeader, TEST_FORM_CODE)
                 answers_start_index ==
                     find_index(SubSeq(ResultsHeader, form_code_index + 1, Len(ResultsHeader)), Q1)
                         + form_code_index
                 r == ScoreExam(exam, keys_scores, form_code_index, answers_start_index)
             IN  /\ answers' = Append(answers, exam)
                 /\ IF r.exc # "none"
                    THEN /\ pc' = "raised"
                         /\ exc' = r.exc
                         /\ UNCHANGED scored_results
                    ELSE /\ scored_results' = Append(scored_results, r.row)
                         /\ UNCHANGED <<pc, exc>>
    /\ UNCHANGED <<call, ret, answer_keys, keys_scores, num_questions>>

\* scoring.py:114, after the last response row
Return ==
    /\ pc = "loop"
    /\ pc' = "returned"
    /\ UNCHANGED <<call, ret, answer_keys, answers, keys_scores, num_questions,
                   scored_results, exc>>

Next == Start \/ ScoreRow \/ Return

Spec == Init /\ [][Next]_vars
(***************************************************************************)
(* Properties of grade_answer, checked under GradeSpec.                    *)
(***************************************************************************)
Returned == ret # NoReturn

\* the alternatives a bracketed literal "[x1|...|xn]" lists
Alternatives(b) == {b[i] : i \in 1..Len(b)} \ {"[", "]", "|"}

\* "[x1|...|xn]", n >= 1, every xi one character that is no delimiter
IsSetLiteral(s) ==
    /\ Len(s) >= 3
    /\ Len(s) % 2 = 1
    /\ s[1] = "["
    /\ s[Len(s)] = "]"
    /\ \A i \in 2..(Len(s) - 1) :
          IF i % 2 = 0 THEN s[i] \notin {"[", "]", "|", "*"} ELSE s[i] = "|"

\* the closed grammar of specifications: one character, a bracketed set,
\* a bare "*", "*" followed by one character or by a bracketed set
InGrammar(s) ==
    \/ Len(s) = 1
    \/ IsSetLiteral(s)
    \/ Len(s) >= 2 /\ s[1] = "*" /\ (Len(s) = 2 \/ IsSetLiteral(Tail(s)))

\* C5: a multi-choice specification and a bracketed multi-letter answer earn
\* the weight when the two sets intersect and 0 when they do not.
C5_MultiAnswerIntersect ==
    (Returned /\ call.correct \in Bracketed /\ call.answer \in Bracketed
         /\ Cardinality(Alternatives(call.answer)) >= 2)
        => ret = Num(IF Alternatives(call.answer) \cap Alternatives(call.correct) # {}
                     THEN call.score
                     ELSE 0)

\* C6: a multi-choice specification [x1|...|xn], n >= 1, and a single-letter
\* answer a earn the weight when a is one of x1..xn and 0 otherwise.
C6_SingleAnswerMembership ==
    (Returned /\ call.correct \in Bracketed /\ call.answer \in {<<c>> : c \in Letters})
        => ret = Num(IF call.answer[1] \in Alternatives(call.correct)
                     THEN call.score
                     ELSE 0)

\* C7: a single-choice specification c (one letter or digit) earns the weight
\* when the answer equals c and 0 for every other answer, never not-applicable.
C7_SingleChoice ==
    (Returned /\ call.correct \in {<<c>> : c \in Letters \cup Digit})
        => ret = Num(IF call.answer = call.correct THEN call.score ELSE 0)

\* C7 happens: a single-choice question answered right earns its weight, and
\* one answered with two bubbles has been graded too
C7_Witness ==
    /\ Returned
    /\ call.correct = <<"A">>
    /\ call.answer = <<"A">>
    /\ call.score = 2
    /\ ret = Num(2)

\* C9: a partial-credit-prefix specification earns the weight when the answer
\* matches and is not-applicable (never 0) when it does not; the answer
\* matches "*X" when it is X and "*[X|Y]" when it is one of the alternatives.
C9_PrefixMatch ==
    /\ (Returned /\ call.correct \in {<<"*", c>> : c \in Letters \cup Digit})
           => ret = (IF call.answer = Tail(call.correct) THEN Num(call.score) ELSE NaN)
    /\ (Returned /\ call.correct \in {<<"*">> \o b : b \in Bracketed})
           => ret = (IF call.answer \in {<<x>> : x \in Alternatives(Tail(call.correct))}
                     THEN Num(call.score)
                     ELSE NaN)

\* C10: a specification outside the closed grammar is rejected with an
\* error: grade_answer returns neither a number nor not-applicable for it.
C10_RejectsOutsideGrammar ==
    (Returned /\ ~InGrammar(call.correct)) => ret.kind = "raise"

(***************************************************************************)
(* Properties of score_results, checked under Spec.  Output row i is the   *)
(* row of response row i: a row that raises ends the run.                  *)
(***************************************************************************)
\* the response rows that have an output row, and those of them with a key
OutputRows == 1..Len(scored_results)
KeyedRows == {i \in OutputRows : HasKey(keys_scores, answers[i][1])}

\* the (specification, weight) pairs response row i is graded against
KeyOf(i) == ResolveKey(keys_scores, answers[i][1])

\* the credit question j of response row i earns, not-applicable earning 0
Credit(i, j) ==
    LET g == grade_answer(answers[i][j + 1], KeyOf(i)[j][1], KeyOf(i)[j][2])
    IN  IF g.kind = "num" THEN g.val ELSE 0

\* the weights, and the credit earned, of the questions of row i that are in S
WeightSum(i, S) ==
    SumSeq([j \in 1..Len(KeyOf(i)) |-> IF j \in S THEN KeyOf(i)[j][2] ELSE 0])
CreditSum(i, S) ==
    SumSeq([j \in 1..Len(KeyOf(i)) |-> IF j \in S THEN Credit(i, j) ELSE 0])

\* str(round(100 * num / den, 2)) in float arithmetic, where 0.0 / 0 is nan
Percentage(num, den) ==
    IF den = 0 THEN <<"n", "a", "n">> ELSE StrFloat(Hundredths(RoundDiv(10000 * num, den)))

IsScenarioA(i) == answer_keys = ScenarioAKeys /\ answers[i] = ScenarioAExam

\* C1 as stated: scenario A yields the score 100.0 and the points 2.0.
C1_ScenarioA_Points2 ==
    \A i \in OutputRows :
        IsScenarioA(i) =>
            /\ scored_results[i].score = StrFloat(Hundredths(10000))
            /\ scored_results[i].points = StrFloat(Hundredths(200))

\* C1 amended: scenario A yields the score 100.0 and the points 3.0, the
\* score fraction 1 times the sum 3 of all the weights, with Q3 graded
\* not-applicable.
C1_ScenarioA ==
    \A i \in OutputRows :
        IsScenarioA(i) =>
            /\ scored_results[i].score = <<"1", "0", "0", ".", "0">>
            /\ scored_results[i].points = <<"3", ".", "0">>
            /\ scored_results[i].answers =
                   <<<<"1", ".", "0">>, <<"1", ".", "0">>, <<"n", "a", "n">>>>

\* C1 happens: the scenario's response row has been scored against its key
C1_Witness == \E i \in OutputRows : IsScenarioA(i)

\* the questions of output row i whose grade is not not-applicable
Applicable(i) ==
    {j \in 1..Len(scored_results[i].answers) : scored_results[i].answers[j] # <<"n", "a", "n">>}

\* C2: the score of a row that has a key and a question that is not
\* not-applicable is 100 x (the credit earned) / (the weights of exactly the
\* questions whose grade is not not-applicable), rounded to 2 decimals.
C2_ScorePercentage ==
    \A i \in KeyedRows :
        Applicable(i) # {} =>
            scored_results[i].score =
                Percentage(CreditSum(i, 1..Len(scored_results[i].answers)),
                           WeightSum(i, Applicable(i)))

\* C2 happens: a scored row with an applicable question of weight > 0 and a
\* not-applicable one of weight > 0
C2_Witness ==
    \E i \in KeyedRows :
        /\ WeightSum(i, Applicable(i)) > 0
        /\ WeightSum(i, 1..Len(KeyOf(i)) \ Applicable(i)) > 0

\* the last key row that carries form code c (0: none), the one
\* establish_key_dict keeps
KeyRowOf(c) ==
    LET rows == {n \in 1..(Len(answer_keys.data) - 1) : get_key_form_code(answer_keys, n) = c}
    IN  IF rows = {} THEN 0 ELSE CHOOSE n \in rows : \A m \in rows : m <= n

\* the form code of the key entry response row i resolves to
CodeOf(i) == IF STAR \in DOMAIN keys_scores THEN STAR ELSE answers[i][1]

Grades == {<<"0", ".", "0">>, <<"1", ".", "0">>, <<"n", "a", "n">>}

\* C3: a response row that resolves to a key variant supplied with no
\* weights is graded with weight 1 for every question: it gets one grade per
\* question, each 0, 1 or not-applicable, and the run does not fail on it.
C3_EmptyWeightsDefaultToOne ==
    \A i \in 1..Len(answers) :
        LET n == KeyRowOf(CodeOf(i))
            questions == Len(answer_keys.data[n + 1]) - find_index(answer_keys.data[1], Q1) + 1
        IN  (pc # "start" /\ n # 0 /\ answer_keys.scores[n] = <<>>
                 /\ questions >= 1 /\ Len(answers[i]) - 1 = questions)
                => /\ i \in OutputRows
                   /\ Len(scored_results[i].answers) = questions
                   /\ \A j \in 1..questions : scored_results[i].answers[j] \in Grades

\* no question that zip pairs for response row i makes grade_answer raise
NoGradeRaises(i) ==
    \A j \in 1..Min(Len(answers[i]) - 1, Len(KeyOf(i))) :
        grade_answer(answers[i][j + 1], KeyOf(i)[j][1], KeyOf(i)[j][2]).kind # "raise"

\* C4: a response row whose answers and key differ in length, in either
\* direction, is graded on the first min(len(answers), len(key)) questions
\* and completed with a score and a points value; the run does not fail.
C4_LengthMismatchTruncates ==
    \A i \in 1..Len(answers) :
        (pc # "start" /\ HasKey(keys_scores, answers[i][1]) /\ KeyOf(i) # <<>>
             /\ Len(answers[i]) - 1 # Len(KeyOf(i)) /\ NoGradeRaises(i))
            => /\ i \in OutputRows
               /\ Len(scored_results[i].answers) = Min(Len(answers[i]) - 1, Len(KeyOf(i)))
               /\ scored_results[i].score # KEY_NOT_FOUND_MESSAGE
               /\ scored_results[i].points # KEY_NOT_FOUND_MESSAGE

\* the canceled questions of the key of response row i
Canceled(i) == {j \in 1..Len(KeyOf(i)) : KeyOf(i)[j][1] = <<"*">>}

\* C8: a canceled specification "*" is graded not-applicable for every answer
\* and every weight; in a scored row a canceled question is not-applicable,
\* and when no other question is, the score is 100 x (the credit of the
\* questions that are not canceled) / (the weights of those questions).
C8_CanceledExcluded ==
    /\ pc = "start" =>
           \A a \in GradeAnswers \cup RunAnswers, w \in GradeWeights :
               grade_answer(a, <<"*">>, w) = NaN
    /\ \A i \in KeyedRows :
           LET graded == 1..Len(scored_results[i].answers)
           IN  /\ \A j \in graded \cap Canceled(i) :
                      scored_results[i].answers[j] = <<"n", "a", "n">>
               /\ (graded \ Applicable(i)) \subseteq Canceled(i)
                      => scored_results[i].score =
                             Percentage(CreditSum(i, graded \ Canceled(i)),
                                        WeightSum(i, graded \ Canceled(i)))

\* C8 happens: a scored row with a canceled question of weight > 0 beside a
\* question that is graded
C8_Witness ==
    \E i \in KeyedRows :
        /\ WeightSum(i, Canceled(i)) > 0
        /\ Applicable(i) # {}
        /\ scored_results[i].score = <<"1", "0", "0", ".", "0">>

\* the outcome of one loop iteration for response row `exam` under the key
\* dictionary d: the exception, or the output row
Outcome(exam, d) == ScoreExam(exam, d, 1, 2)

\* what response row i ended with, as the run recorded it
Recorded(i) ==
    IF i \in OutputRows
    THEN [exc |-> "none", row |-> scored_results[i]]
    ELSE [exc |-> exc, row |-> Outcome(answers[i], keys_scores).row]

\* C11: when the key dictionary has an entry for "*", every response row is
\* graded against that entry, whether its own form code has an entry or has
\* none: the row ends as it does with the "*" entry alone, and no row is
\* flagged key-not-found.
C11_WildcardPrecedence ==
    (pc # "start" /\ STAR \in DOMAIN keys_scores) =>
        \A i \in 1..Len(answers) :
            /\ Recorded(i) = Outcome(answers[i], [c \in {STAR} |-> keys_scores[STAR]])
            /\ i \in OutputRows => scored_results[i].score # KEY_NOT_FOUND_MESSAGE

\* C11 happens: beside the wildcard entry, a row whose form code has an entry
\* of its own and a row whose form code has none have both been graded
C11_Witness ==
    /\ STAR \in DOMAIN keys_scores
    /\ \E i \in OutputRows :
          /\ answers[i][1] \in DOMAIN keys_scores
          /\ keys_scores[answers[i][1]] # keys_scores[STAR]
          /\ Len(scored_results[i].answers) >= 1
    /\ \E i \in OutputRows :
          /\ answers[i][1] \notin DOMAIN keys_scores
          /\ Len(scored_results[i].answers) >= 1

\* C12: a response row whose form code has no entry, in a dictionary without
\* "*", does not end the run: its output row keeps the identifying fields,
\* carries the key-not-found sentinel as score and as points and no
\* per-question grade, and the run goes on with the rows after it.
C12_KeyNotFoundRow ==
    pc # "start" =>
        \A i \in 1..Len(answers) :
            (STAR \notin DOMAIN keys_scores /\ answers[i][1] \notin DOMAIN keys_scores) =>
                /\ i \in OutputRows
                /\ scored_results[i].fields = <<answers[i][1]>>
                /\ scored_results[i].score = KEY_NOT_FOUND_MESSAGE
                /\ scored_results[i].points = KEY_NOT_FOUND_MESSAGE
                /\ scored_results[i].answers = <<>>
                /\ i = Len(answers) => pc \in {"loop", "returned"}

\* C12 happens: a row was flagged key-not-found and a later row of the same
\* run was scored against its key
C12_Witness ==
    \E i \in OutputRows : \E k \in OutputRows :
        /\ i < k
        /\ STAR \notin DOMAIN keys_scores
        /\ answers[i][1] \notin DOMAIN keys_scores
        /\ scored_results[i].score = KEY_NOT_FOUND_MESSAGE
        /\ answers[k][1] \in DOMAIN keys_scores
        /\ Len(scored_results[k].answers) >= 1

\* the grades of the questions graded for response row i: the answers paired
\* with the specifications of the row's key, as far as both reach
GradesOf(i) ==
    [j \in 1..Min(Len(answers[i]) - 1, Len(KeyOf(i))) |->
        grade_answer(answers[i][j + 1], KeyOf(i)[j][1], KeyOf(i)[j][2])]

\* every question graded for response row i is canceled or not applicable
AllGradedNA(i) ==
    /\ HasKey(keys_scores, answers[i][1])
    /\ Len(GradesOf(i)) >= 1
    /\ \A j \in 1..Len(GradesOf(i)) : GradesOf(i)[j].kind = "nan"

\* C13: a response row all of whose graded questions are canceled or not
\* applicable (denominator 0) does not end the run: its output row is
\* written with the not-a-number sentinel as score and as points, and the run
\* goes on with the rows after it.
C13_ZeroDenominatorRow ==
    pc # "start" =>
        \A i \in 1..Len(answers) :
            AllGradedNA(i) =>
                /\ i \in OutputRows
                /\ scored_results[i].score = StrFloat(FNaN)
                /\ scored_results[i].points = StrFloat(FNaN)
                /\ i = Len(answers) => pc \in {"loop", "returned"}

\* output row i is the key-not-found row of response row i
Flagged(i) ==
    /\ ~HasKey(keys_scores, answers[i][1])
    /\ scored_results[i].score = KEY_NOT_FOUND_MESSAGE
    /\ scored_results[i].points = KEY_NOT_FOUND_MESSAGE
    /\ scored_results[i].answers = <<>>

\* output row i is response row i scored: a grade for every question paired
\* with its key, a score and a points value
FullyScored(i) ==
    /\ HasKey(keys_scores, answers[i][1])
    /\ Len(scored_results[i].answers) = Min(Len(answers[i]) - 1, Len(KeyOf(i)))
    /\ \A j \in 1..Len(scored_results[i].answers) :
          scored_results[i].answers[j] = StrGrade(GradesOf(i)[j])
    /\ scored_results[i].score # KEY_NOT_FOUND_MESSAGE
    /\ scored_results[i].points # KEY_NOT_FOUND_MESSAGE
    /\ scored_results[i].score # <<>>
    /\ scored_results[i].points # <<>>

\* C14: a run ends in one of two ways. It returns a table that has one row
\* for every response row read, in the order read, each scored or flagged
\* key-not-found; or it ends with an exception, and then no table is
\* returned. A returned table never leaves a response row out.
C14_AllOrNothing ==
    /\ pc = "returned" =>
          /\ exc = "none"
          /\ Len(scored_results) = Len(answers)
          /\ \A i \in OutputRows :
                /\ scored_results[i].fields = <<answers[i][1]>>
                /\ Flagged(i) \/ FullyScored(i)
    /\ pc = "raised" => exc # "none"
    /\ pc \in {"start", "loop", "returned", "raised"}

\* C14 happens: a run returned a table of a scored row and a flagged row with
\* different form codes
C14_Witness ==
    /\ pc = "returned"
    /\ \E i \in OutputRows : \E k \in OutputRows :
          /\ i < k
          /\ answers[i][1] # answers[k][1]
          /\ FullyScored(i)
          /\ Len(scored_results[i].answers) >= 1
          /\ Flagged(k)

\* C14 happens, the other way: a run ended with an exception at a row that
\* followed a scored one
C14_Aborted == pc = "raised" /\ Len(answers) = 2 /\ Len(scored_results) = 1

\* no column of the key table's header is named Q1
NoQ1Column == \A k \in 1..Len(answer_keys.data[1]) : answer_keys.data[1][k] # Q1

\* C15: with a key table whose header has no column named Q1 the run ends
\* in establish_key_dict with the ValueError of an invalid key table, before
\* a response row is read and before an output row is written.
C15_MissingQ1Aborts ==
    (pc # "start" /\ NoQ1Column) =>
        /\ pc = "raised"
        /\ exc = "ValueError"
        /\ keys_scores = <<>>
        /\ answers = <<>>
        /\ scored_results = <<>>

\* C15 happens: the run of a key table with key rows and no Q1 column ended
C15_Witness ==
    /\ pc = "raised"
    /\ NoQ1Column
    /\ Len(answer_keys.data) >= 2
    /\ Len(answer_keys.data[2]) >= 2

\* str(round(total * num / den, 2)) in float arithmetic, where 0.0 / 0 is nan
Scaled(total, num, den) ==
    IF den = 0 THEN <<"n", "a", "n">> ELSE StrFloat(Hundredths(RoundDiv(100 * total * num, den)))

\* C16: the points of a row that has a key are the score fraction, the
\* credit earned over the weights of the questions that are not
\* not-applicable, times the sum of all the weights of the key, those of the
\* canceled and not-applicable questions included, rounded to 2 decimals.
C16_PointsScaleAllWeights ==
    \A i \in KeyedRows :
        scored_results[i].points =
            Scaled(WeightSum(i, 1..Len(KeyOf(i))),
                   CreditSum(i, 1..Len(scored_results[i].answers)),
                   WeightSum(i, Applicable(i)))

\* C16 happens: a generated row earned credit under a key that gives weight
\* to a question graded not-applicable, so its points exceed the weights of
\* the questions that count
C16_Witness ==
    \E i \in KeyedRows :
        /\ ~IsScenarioA(i)
        /\ CreditSum(i, 1..Len(scored_results[i].answers)) = WeightSum(i, Applicable(i))
        /\ WeightSum(i, Applicable(i)) > 0
        /\ WeightSum(i, 1..Len(KeyOf(i))) > WeightSum(i, Applicable(i))
        /\ scored_results[i].points = StrFloat(Hundredths(100 * WeightSum(i, 1..Len(KeyOf(i)))))

\* no column of the key table's header is the form code column
NoFormColumn ==
    \A k \in 1..Len(answer_keys.data[1]) : answer_keys.data[1][k] # TEST_FORM_CODE

\* the cells of key row n from the Q1 column on
SpecsOfRow(n) ==
    LET first == CHOOSE k \in 1..Len(answer_keys.data[1]) : answer_keys.data[1][k] = Q1
    IN  SubSeq(answer_keys.data[n + 1], first, Len(answer_keys.data[n + 1]))

\* C17: with a key table that has no form code column every key row gets the
\* form code "*", so the dictionary has the one entry "*", which every
\* response row is graded against; that entry holds the specifications of
\* the last key row, the rows before it being overwritten.
C17_NoFormColumnLastRow ==
    LET n == Len(answer_keys.data) - 1
    IN  (pc \in {"loop", "returned"} /\ NoFormColumn /\ n >= 1) =>
            /\ \A m \in 1..n : get_key_form_code(answer_keys, m) = STAR
            /\ DOMAIN keys_scores = {STAR}
            /\ [j \in 1..Len(keys_scores[STAR]) |-> keys_scores[STAR][j][1]] = SpecsOfRow(n)
            /\ \A i \in OutputRows : ~Flagged(i)

====
